---- MODULE Spec2Model ----
(***************************************************************************)
(* pdfmill: the engine registry and availability cache of SmartRouter, the *)
(* persistent Chromium session with its tokio mutex, the two stateless     *)
(* subprocess engines, and the /convert request handler that drives them.  *)
(*                                                                         *)
(* A file extension is a tuple of one-character strings, so that           *)
(* str::to_lowercase is a computation and not the identity.                *)
(***************************************************************************)
EXTENDS Integers, Sequences, FiniteSets, TLC

VARIABLES
    mainPc,        \* position of main()/SmartRouter::new: "new", "probing", "serving"
    probeIdx,      \* index of the `for engine in &engines` loop of SmartRouter::new
    browser,       \* ChromiumEngine.browser: "None" or the launched session
    engines,       \* SmartRouter.engines, in registration order
    availability,  \* SmartRouter.availability: HashMap<EngineType, bool>
    probeCount,    \* number of is_available() calls made on each engine
    holder,        \* task owning the MutexGuard of ChromiumEngine.browser (0: free)
    waiters,       \* tasks suspended in browser.lock().await, oldest first
    pages,         \* tasks whose Page (rendering context) is open in the session
    dirs,          \* live tempfile::TempDir values: [owner, kind]
    pc,            \* position of each request task in convert_handler / convert
    req,           \* the request each task is serving
    resolved,      \* result of router.find_engine_for_file for each task
    result,        \* what convert_handler returned for each task
    call,          \* last direct SmartRouter::find_engine_for_extension call
    log            \* per request: convert() calls made, tool spawns, what the tool did

vars == <<mainPc, probeIdx, browser, engines, availability, probeCount, holder,
          waiters, pages, dirs, pc, req, resolved, result, call, log>>

startupVars == <<mainPc, probeIdx, browser, engines, availability, probeCount>>
lockVars == <<holder, waiters>>

(***************************************************************************)
(* Bounds                                                                  *)
(***************************************************************************)
NumReqs == 2
NumCallers == 3

Procs == 1..NumReqs
Callers == 1..NumCallers

(***************************************************************************)
(* Extension tables (SUPPORTED_EXTENSIONS of each engine) and lower-casing *)
(***************************************************************************)
LowerChar(c) ==
    CASE c = "A" -> "a" [] c = "B" -> "b" [] c = "C" -> "c" [] c = "D" -> "d"
      [] c = "E" -> "e" [] c = "F" -> "f" [] c = "G" -> "g" [] c = "H" -> "h"
      [] c = "I" -> "i" [] c = "J" -> "j" [] c = "K" -> "k" [] c = "L" -> "l"
      [] c = "M" -> "m" [] c = "N" -> "n" [] c = "O" -> "o" [] c = "P" -> "p"
      [] c = "Q" -> "q" [] c = "R" -> "r" [] c = "S" -> "s" [] c = "T" -> "t"
      [] c = "U" -> "u" [] c = "V" -> "v" [] c = "W" -> "w" [] c = "X" -> "x"
      [] c = "Y" -> "y" [] c = "Z" -> "z" [] OTHER -> c

\* LowerChar on the letters, evaluated once
LowerLetters ==
    [c \in {"A","B","C","D","E","F","G","H","I","J","K","L","M","N","O","P","Q","R","S",
             "T","U","V","W","X","Y","Z","a","b","c","d","e","f","g","h","i","j","k","l",
             "m","n","o","p","q","r","s","t","u","v","w","x","y","z"} |-> LowerChar(c)]

to_lowercase(s) ==
    [i \in 1..Len(s) |-> IF s[i] \in DOMAIN LowerLetters THEN LowerLetters[s[i]]
                                                         ELSE LowerChar(s[i])]

CHROMIUM_EXTENSIONS ==
    << <<"h","t","m","l">>, <<"h","t","m">>, <<"x","h","t","m","l">>,
       <<"m","d">>, <<"m","a","r","k","d","o","w","n">> >>

LIBREOFFICE_EXTENSIONS ==
    << <<"d","o","c">>, <<"d","o","c","x">>, <<"x","l","s">>, <<"x","l","s","x">>,
       <<"p","p","t">>, <<"p","p","t","x">>, <<"o","d","t">>, <<"o","d","s">>,
       <<"o","d","p">>, <<"r","t","f">> >>

IMAGE_EXTENSIONS ==
    << <<"j","p","g">>, <<"j","p","e","g">>, <<"p","n","g">>, <<"g","i","f">>,
       <<"b","m","p">>, <<"t","i","f","f">>, <<"t","i","f">>, <<"w","e","b","p">> >>

EngineTypes == {"Chromium", "LibreOffice", "Image"}

\* the vec! of SmartRouter::new
Registry == <<"Chromium", "LibreOffice", "Image">>

\* faulty variant: the image engine also claims an extension of the Chromium engine
supported_extensions_overlapping(e) ==
    CASE e = "Chromium" -> CHROMIUM_EXTENSIONS
      [] e = "LibreOffice" -> LIBREOFFICE_EXTENSIONS
      [] e = "Image" -> IMAGE_EXTENSIONS \o << <<"h","t","m">> >>

supported_extensions(e) ==
    CASE e = "Chromium" -> CHROMIUM_EXTENSIONS
      [] e = "LibreOffice" -> LIBREOFFICE_EXTENSIONS
      [] e = "Image" -> IMAGE_EXTENSIONS

Contains(seq, x) == \E i \in 1..Len(seq) : seq[i] = x

\* faulty variant: the extension is compared as it was given
supports_extension_exact(e, ext) == Contains(supported_extensions(e), ext)

supports_extension(e, ext) == Contains(supported_extensions(e), to_lowercase(ext))

(***************************************************************************)
(* Errors and results                                                      *)
(***************************************************************************)
AppError(kind, msg, ext, by) ==
    [kind |-> kind, msg |-> msg, ext |-> ext, supported_by |-> by]

OkEngine(e) == [kind |-> "Ok", engine |-> e]

NoResult == [kind |-> "None"]
NoReq == [part |-> "none", filename |-> <<>>, ext |-> <<"-">>, hasExt |-> FALSE]
NoCall == [ext |-> <<"-">>, res |-> NoResult]

\* nothing was called, spawned or opened for the request yet
NoLog ==
    [convert_calls |-> 0, spawns |-> 0, tool |-> "NotRun", status |-> 0, stderr |-> "",
     read_back |-> FALSE, tab_open |-> FALSE]

\* an error whose message embeds a text that comes from outside the program
AppErrorWith(kind, msg, detail) ==
    [kind |-> kind, msg |-> msg, ext |-> <<>>, supported_by |-> <<>>, detail |-> detail]

(***************************************************************************)
(* SmartRouter::find_engine_for_extension                                  *)
(***************************************************************************)
\* self.availability.get(&e.engine_type()).unwrap_or(&false)
CachedAvailable(e) == IF e \in DOMAIN availability THEN availability[e] ELSE FALSE

Candidates(ext) ==
    SelectSeq(engines, LAMBDA e : supports_extension(e, to_lowercase(ext)))

Available(ext) == SelectSeq(Candidates(ext), CachedAvailable)

\* faulty variant: the availability filter runs before the support filter
find_engine_available_first(ext) ==
    IF SelectSeq(engines, LAMBDA e : CachedAvailable(e) /\ supports_extension(e, ext)) = <<>>
    THEN AppError("UnsupportedFormat", "No engine supports", ext, <<>>)
    ELSE OkEngine(Available(ext)[1])

\* faulty variant: the message is built from `available` instead of `candidates`
find_engine_names_available(ext) ==
    IF Candidates(ext) = <<>>
    THEN AppError("UnsupportedFormat", "No engine supports", ext, <<>>)
    ELSE IF Available(ext) = <<>>
         THEN AppError("EngineNotAvailable", "dependencies are not installed",
                       ext, Available(ext))
         ELSE OkEngine(Available(ext)[1])

\* faulty variant: the first candidate is returned without consulting the cache
find_engine_ignoring_cache(ext) ==
    IF Candidates(ext) = <<>>
    THEN AppError("UnsupportedFormat", "No engine supports", ext, <<>>)
    ELSE OkEngine(Candidates(ext)[1])

find_engine_for_extension(ext) ==
    LET candidates == Candidates(ext)
        available == SelectSeq(candidates, CachedAvailable)
    IN  IF candidates = <<>>
        THEN AppError("UnsupportedFormat", "No engine supports", ext, <<>>)
        ELSE IF available = <<>>
             THEN AppError("EngineNotAvailable", "dependencies are not installed",
                           ext, candidates)
             ELSE OkEngine(available[1])

\* faulty variant: a missing extension is resolved as the empty extension
find_engine_for_file_empty_ext(r) == find_engine_for_extension(r.ext)

\* path.extension() is None: InvalidRequest, else the extension is resolved
find_engine_for_file(r) ==
    IF ~r.hasExt
    THEN AppError("InvalidRequest", "File has no extension", <<>>, <<>>)
    ELSE find_engine_for_extension(r.ext)

(***************************************************************************)
(* SmartRouter::supported_extensions: concatenate, sort, dedup             *)
(***************************************************************************)
Alphabet ==
    <<"A","B","C","D","E","F","G","H","I","J","K","L","M","N","O","P","Q","R","S","T",
      "U","V","W","X","Y","Z","a","b","c","d","e","f","g","h","i","j","k","l","m","n",
      "o","p","q","r","s","t","u","v","w","x","y","z">>

\* position of a character in byte order
CharCodes ==
    [c \in {Alphabet[i] : i \in 1..Len(Alphabet)} |->
        CHOOSE i \in 1..Len(Alphabet) : Alphabet[i] = c]

CharCode(c) == CharCodes[c]

\* Ord for String: byte-wise lexicographic, a proper prefix sorts first
StrLess(a, b) ==
    \E k \in 1..(Len(a) + 1) :
        /\ \A i \in 1..(k - 1) : i <= Len(b) /\ a[i] = b[i]
        /\ k <= Len(b)
        /\ (k <= Len(a) => CharCode(a[k]) < CharCode(b[k]))

RECURSIVE FlattenAvailable(_)
\* faulty variant: engines cached as unavailable are left out
FlattenAvailable(es) ==
    IF es = <<>> THEN <<>>
    ELSE (IF CachedAvailable(Head(es)) THEN supported_extensions(Head(es)) ELSE <<>>)
            \o FlattenAvailable(Tail(es))

RECURSIVE Flatten(_)
\* extensions.extend(engine.supported_extensions()) for each engine in turn
Flatten(es) ==
    IF es = <<>> THEN <<>> ELSE supported_extensions(Head(es)) \o Flatten(Tail(es))

Insert(sorted, x) ==
    LET n == Cardinality({i \in 1..Len(sorted) : ~StrLess(x, sorted[i])})
    IN  SubSeq(sorted, 1, n) \o <<x>> \o SubSeq(sorted, n + 1, Len(sorted))

RECURSIVE Sort(_)
\* extensions.sort()
Sort(seq) == IF seq = <<>> THEN <<>> ELSE Insert(Sort(Tail(seq)), Head(seq))

\* extensions.dedup(): drops an element equal to its predecessor
Dedup(seq) == SelectSeq([i \in 1..Len(seq) |-> <<i, seq[i]>>],
                        LAMBDA x : x[1] = 1 \/ seq[x[1] - 1] # x[2])

router_supported_extensions ==
    LET d == Dedup(Sort(Flatten(engines))) IN [i \in 1..Len(d) |-> d[i][2]]

\* SmartRouter::is_extension_supported
is_extension_supported(ext) ==
    LET ext_lower == to_lowercase(ext)
    IN  \E i \in 1..Len(engines) : supports_extension(engines[i], ext_lower)

(***************************************************************************)
(* Start-up: main() awaits SmartRouter::new() before serving               *)
(***************************************************************************)
\* ChromiumEngine::init; launched = Browser::launch (and the config build) succeeded
init(launched) ==
    /\ holder = 0
    /\ browser' = IF launched THEN "Session" ELSE browser
    /\ UNCHANGED lockVars

\* SmartRouter::new up to the construction of the engines vector
RouterNew ==
    /\ mainPc = "new"
    /\ \E launched \in BOOLEAN : init(launched)
    /\ engines' = Registry
    /\ probeIdx' = 1
    /\ mainPc' = "probing"
    /\ UNCHANGED <<availability, probeCount, pages, dirs, pc, req, resolved, result, call, log>>

\* one iteration of the availability loop; ok = `<tool> --version` exited with success
ProbeEngine ==
    /\ mainPc = "probing"
    /\ \E ok \in BOOLEAN :
         availability' = [x \in DOMAIN availability \cup {engines[probeIdx]} |->
                             IF x = engines[probeIdx] THEN ok ELSE availability[x]]
    /\ probeCount' = [probeCount EXCEPT ![engines[probeIdx]] = @ + 1]
    /\ probeIdx' = probeIdx + 1
    /\ mainPc' = IF probeIdx = Len(engines) THEN "serving" ELSE "probing"
    /\ UNCHANGED <<browser, engines, holder, waiters, pages, dirs, pc, req,
                   resolved, result, call, log>>

Startup == RouterNew \/ ProbeEngine

(***************************************************************************)
(* Paths: a path is a tuple of characters, "/" separating its components.  *)
(* The operators are std::path's, for paths without a trailing separator.  *)
(***************************************************************************)
None == [some |-> FALSE]
Some(x) == [some |-> TRUE, val |-> x]

IsAbsolute(path) == path # <<>> /\ path[1] = "/"

\* Path::join: an absolute argument replaces the base
join(base, path) == IF IsAbsolute(path) THEN path ELSE base \o <<"/">> \o path

\* index of the last occurrence of c in s, 0 if there is none
LastIndexOf(s, c) ==
    LET I == {i \in 1..Len(s) : s[i] = c}
    IN  IF I = {} THEN 0 ELSE CHOOSE i \in I : \A j \in I : j <= i

\* Path::file_name: the last component, unless it is ".."
file_name(path) ==
    LET name == SubSeq(path, LastIndexOf(path, "/") + 1, Len(path))
    IN  IF name = <<>> \/ name = <<".", ".">> THEN None ELSE Some(name)

\* Path::extension: what follows the last "." of the file name; None when the
\* name has no "." or only a leading one
extension(path) ==
    LET name == file_name(path)
    IN  IF ~name.some THEN None
        ELSE LET dot == LastIndexOf(name.val, ".")
             IN  IF dot <= 1 THEN None
                 ELSE Some(SubSeq(name.val, dot + 1, Len(name.val)))

\* Path::file_stem: the file name without its extension
file_stem(path) ==
    LET name == file_name(path)
    IN  IF ~name.some THEN None
        ELSE LET dot == LastIndexOf(name.val, ".")
             IN  IF dot <= 1 THEN name
                 ELSE Some(SubSeq(name.val, 1, dot - 1))

\* TempDir::path() of the directory a tempfile::tempdir() call of task `owner`
\* created; tempfile retries until the name is unused, so the live directories
\* have pairwise different names
TempDirPath(owner, kind) == <<"/", "t", "m", "p", "/", kind, ToString(owner)>>

\* a path lies inside a directory: below it, and never stepping back up
Inside(path, dir) ==
    /\ Len(path) > Len(dir) + 1
    /\ SubSeq(path, 1, Len(dir) + 1) = dir \o <<"/">>
    /\ \A i \in 1..(Len(path) - 1) : ~(path[i] = "." /\ path[i + 1] = ".")

(***************************************************************************)
(* Requests: what the multipart body of POST /convert carries              *)
(***************************************************************************)
\* file names a client can put into the Content-Disposition of the file part
Filenames ==
    { <<"a", ".", "h", "t", "m", "l">>,
      <<"n", ".", "b", ".", "M", "D">>,
      <<"r", ".", "d", "o", "c", "x">>,
      <<"/", "v", "/", "p", ".", "P", "n", "g">>,
      <<"x", ".", "x", "y", "z">>,
      <<"n", "o", "e", "x", "t">> }

\* let input_path = temp_dir.path().join(&filename)
input_path_of(p, filename) == join(TempDirPath(p, "input"), filename)

\* input_path.extension() for every task and file name, evaluated once
InputExtension ==
    [p \in Procs \cup Callers |->
        [f \in Filenames |-> extension(input_path_of(p, f))]]

\* the file part as task p sees it: the client's file name, and what
\* input_path.extension() yields for it (the path never changes afterwards)
Request(p, filename) ==
    LET ext == InputExtension[p][filename]
    IN  [part |-> "file",
         filename |-> filename,
         ext |-> IF ext.some THEN ext.val ELSE <<>>,
         hasExt |-> ext.some]

Requests(p) == {Request(p, f) : f \in Filenames}

\* bodies the handler rejects while parsing: not valid multipart, no part
\* named "file", a "file" part without a file name
BadBody(what) == [part |-> what, filename |-> <<>>, ext |-> <<>>, hasExt |-> FALSE]

Bodies(p) == Requests(p) \cup {BadBody(w) : w \in {"malformed", "no_file", "no_filename"}}

input_path(p) == input_path_of(p, req[p].filename)

\* ext == "md" || ext == "markdown", on the lower-cased extension
IsMarkdown(r) ==
    r.hasExt /\ to_lowercase(r.ext) \in {<<"m","d">>, <<"m","a","r","k","d","o","w","n">>}

\* format!("{}.pdf", file_stem) with the "output" fallback of unwrap_or
pdf_filename(path) ==
    LET stem == file_stem(path)
    IN  (IF stem.some THEN stem.val ELSE <<"o", "u", "t", "p", "u", "t">>)
            \o <<".", "p", "d", "f">>

\* the name every engine derives from input_path, evaluated once per task and
\* file name
original_name ==
    [p \in Procs \cup Callers |->
        [f \in Filenames |-> pdf_filename(input_path_of(p, f))]]

\* Ok(ConvertResult { data, filename, content_type })
ConvertOk(e, filename) ==
    [kind |-> "Ok", engine |-> e, content_type |-> "application/pdf",
     filename |-> filename]

(***************************************************************************)
(* The tokio mutex around the session: a fair (FIFO) lock whose release    *)
(* hands the guard to the oldest waiter.                                   *)
(***************************************************************************)
\* faulty variant: the guard is granted without excluding the current holder
LockPollNoExclusion(p) ==
    /\ holder' = p
    /\ waiters' = waiters
    /\ pc' = [pc EXCEPT ![p] = "c_locked"]

\* first poll of self.browser.lock(): take the free lock or queue behind the others
LockPoll(p) ==
    IF holder = 0 /\ waiters = <<>>
    THEN /\ holder' = p
         /\ waiters' = waiters
         /\ pc' = [pc EXCEPT ![p] = "c_locked"]
    ELSE /\ holder' = holder
         /\ waiters' = Append(waiters, p)
         /\ pc' = [pc EXCEPT ![p] = "c_wait"]

\* faulty variant: the guard is handed to the newest waiter
GuardDropLifo(p) ==
    IF holder = p
    THEN IF waiters = <<>>
         THEN holder' = 0 /\ waiters' = waiters
         ELSE /\ holder' = waiters[Len(waiters)]
              /\ waiters' = SubSeq(waiters, 1, Len(waiters) - 1)
    ELSE UNCHANGED lockVars

\* drop of the MutexGuard
GuardDrop(p) ==
    IF holder = p
    THEN IF waiters = <<>>
         THEN holder' = 0 /\ waiters' = waiters
         ELSE holder' = Head(waiters) /\ waiters' = Tail(waiters)
    ELSE UNCHANGED lockVars

MyDirs(p) == {d \in dirs : d.owner = p}

\* faulty variant: an early return leaves the session locked
ReturnKeepingGuard(p, res) ==
    /\ result' = [result EXCEPT ![p] = res]
    /\ pc' = [pc EXCEPT ![p] = "done"]
    /\ IF res.kind = "Ok" THEN GuardDrop(p) ELSE UNCHANGED lockVars
    /\ pages' = pages \ {p}
    /\ dirs' = dirs \ MyDirs(p)

\* convert_handler returns res: every local of the task is dropped (the guard,
\* the Page, the TempDirs of the handler and of the engine). Dropping the Page
\* handle sends no command to the browser: the tab it names stays open in the
\* session, which log[p].tab_open keeps recording
Return(p, res) ==
    /\ result' = [result EXCEPT ![p] = res]
    /\ pc' = [pc EXCEPT ![p] = "done"]
    /\ GuardDrop(p)
    /\ pages' = pages \ {p}
    /\ dirs' = dirs \ MyDirs(p)

(***************************************************************************)
(* convert_handler                                                         *)
(***************************************************************************)
\* the error of the multipart loop, or of `file_data.ok_or(NoFileProvided)`
ParseError(body) ==
    CASE body.part = "malformed" ->
            AppError("InvalidRequest", "Failed to parse multipart data", <<>>, <<>>)
      [] body.part = "no_filename" ->
            AppError("InvalidRequest", "No filename provided", <<>>, <<>>)
      [] body.part = "no_file" ->
            AppError("NoFileProvided", "No file provided", <<>>, <<>>)

\* faulty variant: requests are accepted while SmartRouter::new() is running
ReceiveDuringStartup(p) ==
    /\ pc[p] = "idle"
    /\ \E body \in Bodies(p) :
         /\ req' = [req EXCEPT ![p] = body]
         /\ IF body.part = "file"
            THEN /\ pc' = [pc EXCEPT ![p] = "h_parsed"]
                 /\ UNCHANGED <<holder, waiters, pages, dirs, result>>
            ELSE Return(p, ParseError(body))
    /\ UNCHANGED <<startupVars, resolved, call, log>>

\* the multipart loop and `file_data.ok_or(NoFileProvided)`
Receive(p) ==
    /\ mainPc = "serving"
    /\ pc[p] = "idle"
    /\ \E body \in Bodies(p) :
         /\ req' = [req EXCEPT ![p] = body]
         /\ IF body.part = "file"
            THEN /\ pc' = [pc EXCEPT ![p] = "h_parsed"]
                 /\ UNCHANGED <<holder, waiters, pages, dirs, result>>
            ELSE Return(p, ParseError(body))
    /\ UNCHANGED <<startupVars, resolved, call, log>>

\* info_handler (GET /info and GET /): lists router.supported_extensions()
InfoHandler(p) ==
    /\ mainPc = "serving"
    /\ pc[p] = "idle"
    /\ Return(p, [kind |-> "Info", supported_formats |-> router_supported_extensions])
    /\ UNCHANGED <<startupVars, req, resolved, call, log>>

\* tempfile::tempdir()? and tokio::fs::write(&input_path, &data).await?
SaveInput(p) ==
    /\ pc[p] = "h_parsed"
    /\ \/ /\ dirs' = dirs \cup {[owner |-> p, kind |-> "input"]}
          /\ pc' = [pc EXCEPT ![p] = "h_saved"]
          /\ UNCHANGED <<holder, waiters, pages, result>>
       \/ Return(p, AppError("IoError", "input", <<>>, <<>>))
    /\ UNCHANGED <<startupVars, req, resolved, call, log>>

\* faulty variant: the candidate engine is probed again on every request
ResolveStepProbing(p) ==
    /\ pc[p] = "h_saved"
    /\ resolved' = [resolved EXCEPT ![p] = find_engine_for_file(req[p])]
    /\ IF find_engine_for_file(req[p]).kind = "Ok"
       THEN /\ pc' = [pc EXCEPT ![p] = "convert"]
            /\ \E ok \in BOOLEAN :
                 availability' = [availability EXCEPT
                                     ![find_engine_for_file(req[p]).engine] = ok]
            /\ UNCHANGED <<holder, waiters, pages, dirs, result>>
       ELSE /\ Return(p, find_engine_for_file(req[p]))
            /\ UNCHANGED availability
    /\ UNCHANGED <<mainPc, probeIdx, browser, engines, probeCount, req, call, log>>

\* state.router.find_engine_for_file(&input_path)?
ResolveStep(p) ==
    /\ pc[p] = "h_saved"
    /\ LET engine == find_engine_for_file(req[p])
       IN  /\ resolved' = [resolved EXCEPT ![p] = engine]
           /\ IF engine.kind = "Ok"
              THEN /\ pc' = [pc EXCEPT ![p] = "convert"]
                   /\ UNCHANGED <<holder, waiters, pages, dirs, result>>
              ELSE Return(p, engine)
    /\ UNCHANGED <<startupVars, req, call, log>>

(***************************************************************************)
(* ChromiumEngine::convert and convert_html_to_pdf_cdp                     *)
(***************************************************************************)
\* faulty variant: the TempDir of the pre-transform is dropped as soon as
\* input.html is written (`let (html_path, _) = ..`)
ChromiumConvertDroppingTempDir(p) ==
    /\ pc[p] = "convert"
    /\ resolved[p].engine = "Chromium"
    /\ IF IsMarkdown(req[p])
       THEN \/ /\ pc' = [pc EXCEPT ![p] = "c_lock"]
               /\ UNCHANGED <<holder, waiters, pages, dirs, result>>
            \/ Return(p, AppError("IoError", "markdown", <<>>, <<>>))
       ELSE /\ pc' = [pc EXCEPT ![p] = "c_lock"]
            /\ UNCHANGED <<holder, waiters, pages, dirs, result>>
    /\ log' = [log EXCEPT ![p].convert_calls = @ + 1]
    /\ UNCHANGED <<startupVars, req, resolved, call>>

\* convert(): the markdown pre-transform into a temporary input.html, before
\* convert_html_to_pdf_cdp is called
ChromiumConvert(p) ==
    /\ pc[p] = "convert"
    /\ resolved[p].engine = "Chromium"
    /\ IF IsMarkdown(req[p])
       THEN \/ /\ dirs' = dirs \cup {[owner |-> p, kind |-> "html"]}
               /\ pc' = [pc EXCEPT ![p] = "c_lock"]
               /\ UNCHANGED <<holder, waiters, pages, result>>
            \/ Return(p, AppError("IoError", "markdown", <<>>, <<>>))
       ELSE /\ pc' = [pc EXCEPT ![p] = "c_lock"]
            /\ UNCHANGED <<holder, waiters, pages, dirs, result>>
    /\ log' = [log EXCEPT ![p].convert_calls = @ + 1]
    /\ UNCHANGED <<startupVars, req, resolved, call>>

\* let guard = self.browser.lock().await, first poll
LockRequest(p) ==
    /\ pc[p] = "c_lock"
    /\ LockPoll(p)
    /\ UNCHANGED <<startupVars, pages, dirs, req, resolved, result, call, log>>

\* the suspended lock().await completes once the guard was handed over
LockGranted(p) ==
    /\ pc[p] = "c_wait"
    /\ holder = p
    /\ pc' = [pc EXCEPT ![p] = "c_locked"]
    /\ UNCHANGED <<startupVars, holder, waiters, pages, dirs, req, resolved, result, call, log>>

\* faulty variant: the Option is used without the `None` check
OpenPageUnchecked(p) ==
    /\ pc[p] = "c_locked"
    /\ \/ /\ pages' = pages \cup {p}
          /\ pc' = [pc EXCEPT ![p] = "c_page"]
          /\ log' = [log EXCEPT ![p].tab_open = TRUE]
               /\ UNCHANGED <<holder, waiters, dirs, result>>
       \/ /\ Return(p, AppError("ConversionFailed", "Failed to create new tab", <<>>, <<>>))
          /\ UNCHANGED log
    /\ UNCHANGED <<startupVars, req, resolved, call>>

\* faulty variant: the page that was just opened is printed without navigating
OpenPageSkippingNavigation(p) ==
    /\ pc[p] = "c_locked"
    /\ IF browser = "None"
       THEN /\ Return(p, AppError("EngineNotAvailable", "Chromium browser not initialized",
                                  <<>>, <<>>))
            /\ UNCHANGED log
       ELSE \/ /\ pages' = pages \cup {p}
               /\ pc' = [pc EXCEPT ![p] = "c_nav"]
               /\ log' = [log EXCEPT ![p].tab_open = TRUE]
               /\ UNCHANGED <<holder, waiters, dirs, result>>
            \/ /\ Return(p, AppError("ConversionFailed", "Failed to create new tab",
                                     <<>>, <<>>))
               /\ UNCHANGED log
    /\ UNCHANGED <<startupVars, req, resolved, call>>

\* guard.as_ref().ok_or_else(..)? and browser.new_page("about:blank").await:
\* the browser opens a tab and the conversion gets a Page handle on it
OpenPage(p) ==
    /\ pc[p] = "c_locked"
    /\ IF browser = "None"
       THEN /\ Return(p, AppError("EngineNotAvailable", "Chromium browser not initialized",
                                  <<>>, <<>>))
            /\ UNCHANGED log
       ELSE \/ /\ pages' = pages \cup {p}
               /\ pc' = [pc EXCEPT ![p] = "c_page"]
               /\ log' = [log EXCEPT ![p].tab_open = TRUE]
               /\ UNCHANGED <<holder, waiters, dirs, result>>
            \/ /\ Return(p, AppError("ConversionFailed", "Failed to create new tab",
                                     <<>>, <<>>))
               /\ UNCHANGED log
    /\ UNCHANGED <<startupVars, req, resolved, call>>

\* input_path.canonicalize()? and page.goto(&input_url).await
Navigate(p) ==
    /\ pc[p] = "c_page"
    /\ \/ /\ pc' = [pc EXCEPT ![p] = "c_nav"]
          /\ UNCHANGED <<holder, waiters, pages, dirs, result>>
       \/ Return(p, AppError("IoError", "canonicalize", <<>>, <<>>))
       \/ Return(p, AppError("ConversionFailed", "Failed to navigate", <<>>, <<>>))
    /\ UNCHANGED <<startupVars, req, resolved, call, log>>

\* the file the browser is pointed at: the temporary input.html for a markdown
\* input, the input itself otherwise
html_path(p) ==
    IF IsMarkdown(req[p])
    THEN join(TempDirPath(p, "html"), <<"i", "n", "p", "u", "t", ".", "h", "t", "m", "l">>)
    ELSE input_path(p)

\* faulty variant: the result is named after the file that was rendered
PrintPdfNamedAfterRendered(p) ==
    /\ pc[p] = "c_nav"
    /\ \/ Return(p, ConvertOk("Chromium", pdf_filename(html_path(p))))
       \/ Return(p, AppError("ConversionFailed", "PDF generation failed", <<>>, <<>>))
    /\ UNCHANGED <<startupVars, req, resolved, call, log>>

\* faulty variant: a failed print throws the session away
PrintPdfResetting(p) ==
    /\ pc[p] = "c_nav"
    /\ \/ /\ Return(p, ConvertOk("Chromium", original_name[p][req[p].filename]))
          /\ UNCHANGED browser
       \/ /\ Return(p, AppError("ConversionFailed", "PDF generation failed", <<>>, <<>>))
          /\ browser' = "None"
    /\ UNCHANGED <<mainPc, probeIdx, engines, availability, probeCount, req, resolved, call, log>>

\* page.pdf(params).await and the return of convert() and of the handler
PrintPdf(p) ==
    /\ pc[p] = "c_nav"
    /\ \/ Return(p, ConvertOk("Chromium", original_name[p][req[p].filename]))
       \/ Return(p, AppError("ConversionFailed", "PDF generation failed", <<>>, <<>>))
    /\ UNCHANGED <<startupVars, req, resolved, call, log>>

(***************************************************************************)
(* LibreOfficeEngine::convert and ImageEngine::convert                     *)
(***************************************************************************)
\* what the external tool can do once it runs: exit status and standard error
ToolOutputs ==
    { [status |-> 0, stderr |-> ""],
      [status |-> 1, stderr |-> "no decode delegate"],
      [status |-> 1, stderr |-> "source file could not be loaded"] }

NotFound(e) ==
    AppError("EngineNotAvailable",
             IF e = "LibreOffice" THEN "LibreOffice not found" ELSE "ImageMagick not found",
             <<>>, <<>>)

ToolFailed(e, stderr) ==
    AppErrorWith("ConversionFailed",
                 IF e = "LibreOffice" THEN "LibreOffice conversion failed"
                                      ELSE "ImageMagick conversion failed",
                 stderr)

\* faulty variant: a spawn failure marks the engine unavailable in the cache
StatelessSpawnEvicting(p) ==
    /\ pc[p] = "convert"
    /\ resolved[p].engine \in {"LibreOffice", "Image"}
    /\ \/ /\ dirs' = dirs \cup {[owner |-> p, kind |-> "output"]}
          /\ pc' = [pc EXCEPT ![p] = "s_run"]
          /\ log' = [log EXCEPT ![p].convert_calls = @ + 1, ![p].spawns = @ + 1,
                                ![p].tool = "Running"]
          /\ UNCHANGED <<holder, waiters, pages, result, availability>>
       \/ /\ Return(p, AppError("IoError", "tempdir", <<>>, <<>>))
          /\ log' = [log EXCEPT ![p].convert_calls = @ + 1]
          /\ UNCHANGED availability
       \/ /\ Return(p, NotFound(resolved[p].engine))
          /\ log' = [log EXCEPT ![p].convert_calls = @ + 1, ![p].spawns = @ + 1,
                                ![p].tool = "SpawnFailed"]
          /\ availability' = [availability EXCEPT ![resolved[p].engine] = FALSE]
    /\ UNCHANGED <<mainPc, probeIdx, browser, engines, probeCount, req, resolved, call>>

\* faulty variant: the tool is run under the session guard of the Chromium engine
StatelessSpawnSerialized(p) ==
    /\ pc[p] = "convert"
    /\ resolved[p].engine \in {"LibreOffice", "Image"}
    /\ holder = 0
    /\ \/ /\ dirs' = dirs \cup {[owner |-> p, kind |-> "output"]}
          /\ pc' = [pc EXCEPT ![p] = "s_run"]
          /\ holder' = p
          /\ log' = [log EXCEPT ![p].convert_calls = @ + 1, ![p].spawns = @ + 1,
                                ![p].tool = "Running"]
          /\ UNCHANGED <<waiters, pages, result>>
       \/ /\ Return(p, AppError("IoError", "tempdir", <<>>, <<>>))
          /\ log' = [log EXCEPT ![p].convert_calls = @ + 1]
       \/ /\ Return(p, NotFound(resolved[p].engine))
          /\ log' = [log EXCEPT ![p].convert_calls = @ + 1, ![p].spawns = @ + 1,
                                ![p].tool = "SpawnFailed"]
    /\ UNCHANGED <<startupVars, req, resolved, call>>

\* convert() up to the spawn: tempfile::tempdir()? and, in convert_to_pdf,
\* Command::new(..).output() starting the external tool
StatelessSpawn(p) ==
    /\ pc[p] = "convert"
    /\ resolved[p].engine \in {"LibreOffice", "Image"}
    /\ \/ /\ dirs' = dirs \cup {[owner |-> p, kind |-> "output"]}
          /\ pc' = [pc EXCEPT ![p] = "s_run"]
          /\ log' = [log EXCEPT ![p].convert_calls = @ + 1, ![p].spawns = @ + 1,
                                ![p].tool = "Running"]
          /\ UNCHANGED <<holder, waiters, pages, result>>
       \/ /\ Return(p, AppError("IoError", "tempdir", <<>>, <<>>))
          /\ log' = [log EXCEPT ![p].convert_calls = @ + 1]
       \/ /\ Return(p, NotFound(resolved[p].engine))
          /\ log' = [log EXCEPT ![p].convert_calls = @ + 1, ![p].spawns = @ + 1,
                                ![p].tool = "SpawnFailed"]
    /\ UNCHANGED <<startupVars, req, resolved, call>>

\* faulty variant: the exit status is not looked at
StatelessExitIgnoringStatus(p) ==
    /\ pc[p] = "s_run"
    /\ \E out \in ToolOutputs :
         /\ \/ /\ Return(p, ConvertOk(resolved[p].engine, original_name[p][req[p].filename]))
               /\ log' = [log EXCEPT ![p].tool = "Exited", ![p].status = out.status,
                                     ![p].stderr = out.stderr, ![p].read_back = TRUE]
            \/ /\ Return(p, AppError("IoError", "read output", <<>>, <<>>))
               /\ log' = [log EXCEPT ![p].tool = "Exited", ![p].status = out.status,
                                     ![p].stderr = out.stderr]
    /\ UNCHANGED <<startupVars, req, resolved, call>>

\* faulty variant: a tool that exited non-zero is started a second time
StatelessExitRetrying(p) ==
    /\ pc[p] = "s_run"
    /\ \E out \in ToolOutputs :
         IF out.status # 0
         THEN IF log[p].spawns < 2
              THEN /\ log' = [log EXCEPT ![p].spawns = @ + 1]
                   /\ UNCHANGED <<holder, waiters, pages, dirs, pc, result>>
              ELSE /\ Return(p, ToolFailed(resolved[p].engine, out.stderr))
                   /\ log' = [log EXCEPT ![p].tool = "Exited", ![p].status = out.status,
                                         ![p].stderr = out.stderr]
         ELSE \/ /\ Return(p, ConvertOk(resolved[p].engine, original_name[p][req[p].filename]))
                 /\ log' = [log EXCEPT ![p].tool = "Exited", ![p].status = out.status,
                                       ![p].stderr = out.stderr, ![p].read_back = TRUE]
              \/ /\ Return(p, AppError("IoError", "read output", <<>>, <<>>))
                 /\ log' = [log EXCEPT ![p].tool = "Exited", ![p].status = out.status,
                                       ![p].stderr = out.stderr]
    /\ UNCHANGED <<startupVars, req, resolved, call>>

\* the tool exits: a non-zero status is ConversionFailed with its standard
\* error; on status zero convert() reads the output file back
StatelessExit(p) ==
    /\ pc[p] = "s_run"
    /\ \E out \in ToolOutputs :
         IF out.status # 0
         THEN /\ Return(p, ToolFailed(resolved[p].engine, out.stderr))
              /\ log' = [log EXCEPT ![p].tool = "Exited", ![p].status = out.status,
                                    ![p].stderr = out.stderr]
         ELSE \/ /\ Return(p, ConvertOk(resolved[p].engine, original_name[p][req[p].filename]))
                 /\ log' = [log EXCEPT ![p].tool = "Exited", ![p].status = out.status,
                                       ![p].stderr = out.stderr, ![p].read_back = TRUE]
              \/ /\ Return(p, AppError("IoError", "read output", <<>>, <<>>))
                 /\ log' = [log EXCEPT ![p].tool = "Exited", ![p].status = out.status,
                                       ![p].stderr = out.stderr]
    /\ UNCHANGED <<startupVars, req, resolved, call>>

\* the response was sent; the task slot serves the next request
Respond(p) ==
    /\ pc[p] = "done"
    /\ pc' = [pc EXCEPT ![p] = "idle"]
    /\ req' = [req EXCEPT ![p] = NoReq]
    /\ resolved' = [resolved EXCEPT ![p] = NoResult]
    /\ result' = [result EXCEPT ![p] = NoResult]
    /\ log' = [log EXCEPT ![p] = NoLog]
    /\ UNCHANGED <<startupVars, holder, waiters, pages, dirs, call>>

(***************************************************************************)
(* Specifications                                                          *)
(***************************************************************************)
InitFor(tasks) ==
    /\ mainPc = "new"
    /\ probeIdx = 0
    /\ browser = "None"
    /\ engines = <<>>
    /\ availability = [e \in {} |-> FALSE]
    /\ probeCount = [e \in EngineTypes |-> 0]
    /\ holder = 0
    /\ waiters = <<>>
    /\ pages = {}
    /\ dirs = {}
    /\ pc = [p \in tasks |-> "idle"]
    /\ req = [p \in tasks |-> NoReq]
    /\ resolved = [p \in tasks |-> NoResult]
    /\ result = [p \in tasks |-> NoResult]
    /\ call = NoCall
    /\ log = [p \in tasks |-> NoLog]

Init == InitFor(Procs)

HandlerStep(p) ==
    Receive(p) \/ InfoHandler(p) \/ SaveInput(p) \/ ResolveStep(p) \/ Respond(p)

ChromiumStep(p) ==
    ChromiumConvert(p) \/ LockRequest(p) \/ LockGranted(p) \/ OpenPage(p)
        \/ Navigate(p) \/ PrintPdf(p)

StatelessStep(p) == StatelessSpawn(p) \/ StatelessExit(p)

Next ==
    \/ Startup
    \/ \E p \in Procs : HandlerStep(p) \/ ChromiumStep(p) \/ StatelessStep(p)

Spec == Init /\ [][Next]_vars

(***************************************************************************)
(* Direct calls of the router, as its unit tests make them                 *)
(***************************************************************************)
RouterExts ==
    { CHROMIUM_EXTENSIONS[i] : i \in 1..Len(CHROMIUM_EXTENSIONS) }
      \cup { LIBREOFFICE_EXTENSIONS[i] : i \in 1..Len(LIBREOFFICE_EXTENSIONS) }
      \cup { IMAGE_EXTENSIONS[i] : i \in 1..Len(IMAGE_EXTENSIONS) }
      \cup { <<"H","T","M","L">>, <<"M","d">>, <<"D","o","c","X">>, <<"J","P","G">>,
             <<"x","y","z">>, <<"X","Y","Z">>, <<"p","d","f">>, <<"h","t">>, <<>> }

FindEngineCall ==
    /\ mainPc = "serving"
    /\ \E e \in RouterExts :
         call' = [ext |-> e, res |-> find_engine_for_extension(e)]
    /\ UNCHANGED <<startupVars, holder, waiters, pages, dirs, pc, req, resolved, result,
                   log>>

NextRouter == Startup \/ FindEngineCall

SpecRouter == Init /\ [][NextRouter]_vars

(***************************************************************************)
(* Concurrent convert() calls on the one ChromiumEngine                    *)
(***************************************************************************)
ChromiumRequests(p) ==
    {r \in Requests(p) : r.hasExt /\ supports_extension("Chromium", r.ext)}

\* engine.convert(&input_path, &options) on the Chromium engine, once init()
\* has returned; the engine reads nothing of the availability cache, so this
\* specification leaves the probes out
ConvertCall(p) ==
    /\ mainPc # "new"
    /\ pc[p] = "idle"
    /\ \E r \in ChromiumRequests(p) : req' = [req EXCEPT ![p] = r]
    /\ resolved' = [resolved EXCEPT ![p] = OkEngine("Chromium")]
    /\ pc' = [pc EXCEPT ![p] = "convert"]
    /\ UNCHANGED <<startupVars, holder, waiters, pages, dirs, result, call, log>>

NextChromium ==
    \/ RouterNew
    \/ \E p \in Callers : ConvertCall(p) \/ ChromiumStep(p) \/ Respond(p)

SpecChromium == InitFor(Callers) /\ [][NextChromium]_vars

\* the runtime keeps polling a task that can make progress inside convert()
FairChromium ==
    /\ SpecChromium
    /\ \A p \in Callers : WF_vars(ChromiumStep(p))

(***************************************************************************)
(* Concurrent convert() calls on all three engines                         *)
(***************************************************************************)
\* engine.convert(&input_path, &options) called directly on any of the three
\* engines, for a file that engine supports and converts as it is (the
\* markdown pre-transform is exercised by the calls of the section above)
EngineCall(p) ==
    /\ mainPc # "new"
    /\ pc[p] = "idle"
    /\ \E e \in EngineTypes :
         /\ \E r \in {x \in Requests(p) : /\ x.hasExt
                                            /\ supports_extension(e, x.ext)
                                            /\ ~IsMarkdown(x)} :
              req' = [req EXCEPT ![p] = r]
         /\ resolved' = [resolved EXCEPT ![p] = OkEngine(e)]
    /\ pc' = [pc EXCEPT ![p] = "convert"]
    /\ UNCHANGED <<startupVars, holder, waiters, pages, dirs, result, call, log>>

NextEngines ==
    \/ RouterNew
    \/ \E p \in Callers :
         EngineCall(p) \/ ChromiumStep(p) \/ StatelessStep(p) \/ Respond(p)

SpecEngines == InitFor(Callers) /\ [][NextEngines]_vars

(***************************************************************************)
(* AppError::into_response, called on every error the enum can hold        *)
(***************************************************************************)
BAD_REQUEST == 400
INTERNAL_SERVER_ERROR == 500
SERVICE_UNAVAILABLE == 503

ErrorKinds ==
    {"UnsupportedFormat", "NoFileProvided", "ConversionFailed", "EngineNotAvailable",
     "InvalidRequest", "IoError", "Internal"}

\* the text of #[error("..")] in front of the payload
DisplayPrefix(kind) ==
    CASE kind = "UnsupportedFormat" -> "Unsupported file format: "
      [] kind = "NoFileProvided" -> "No file provided"
      [] kind = "ConversionFailed" -> "Conversion failed: "
      [] kind = "EngineNotAvailable" -> "Engine not available: "
      [] kind = "InvalidRequest" -> "Invalid request: "
      [] kind = "IoError" -> "IO error: "
      [] kind = "Internal" -> "Internal error: "

\* what the variant holds: everything of the error but its kind
Payload(e) == [f \in (DOMAIN e) \ {"kind"} |-> e[f]]

\* self.to_string(): the prefix followed by the payload, if the variant has one
to_string(e) ==
    IF e.kind = "NoFileProvided" THEN <<DisplayPrefix(e.kind)>>
    ELSE <<DisplayPrefix(e.kind), Payload(e)>>

\* faulty variant: a missing dependency is reported as a server error
into_response_unavailable_as_500(e) ==
    [status |-> CASE e.kind \in {"UnsupportedFormat", "NoFileProvided", "InvalidRequest"}
                       -> BAD_REQUEST
                  [] OTHER -> INTERNAL_SERVER_ERROR,
     body |-> [error |-> to_string(e)]]

into_response(e) ==
    [status |-> CASE e.kind = "UnsupportedFormat" -> BAD_REQUEST
                  [] e.kind = "NoFileProvided" -> BAD_REQUEST
                  [] e.kind = "InvalidRequest" -> BAD_REQUEST
                  [] e.kind = "ConversionFailed" -> INTERNAL_SERVER_ERROR
                  [] e.kind = "EngineNotAvailable" -> SERVICE_UNAVAILABLE
                  [] e.kind = "IoError" -> INTERNAL_SERVER_ERROR
                  [] e.kind = "Internal" -> INTERNAL_SERVER_ERROR,
     body |-> [error |-> to_string(e)]]

\* message texts the program puts into its errors
ErrorMessages ==
    {"No engine supports", "dependencies are not installed", "File has no extension",
     "Failed to parse multipart data", "No filename provided", "Failed to read file data",
     "input", "markdown", "tempdir", "read output", "canonicalize",
     "Chromium browser not initialized", "Failed to create new tab", "Failed to navigate",
     "PDF generation failed", "LibreOffice not found", "ImageMagick not found",
     "Failed to build browser config", "Failed to launch browser"}

\* every variant with every message, and the variants a tool's stderr ends up in
Errors ==
    {AppError(k, m, <<>>, <<>>) : k \in ErrorKinds \ {"NoFileProvided"}, m \in ErrorMessages}
      \cup {AppError("NoFileProvided", "No file provided", <<>>, <<>>)}
      \cup {ToolFailed(e, out.stderr) : e \in {"LibreOffice", "Image"}, out \in ToolOutputs}

IntoResponseCall ==
    /\ \E e \in Errors : call' = [err |-> e, response |-> into_response(e)]
    /\ UNCHANGED <<startupVars, holder, waiters, pages, dirs, pc, req, resolved, result,
                   log>>

SpecErrors == Init /\ [][IntoResponseCall]_vars

(***************************************************************************)
(* Print parameters of the Chromium engine: parse_to_inches and the        *)
(* building of PrintToPdfParams in convert_html_to_pdf_cdp. A string is a  *)
(* tuple of characters; a number is an exact fraction num/den, or one of   *)
(* the special values f64 has.                                             *)
(***************************************************************************)
Digits == <<"0", "1", "2", "3", "4", "5", "6", "7", "8", "9">>

IsDigit(c) == \E i \in 1..Len(Digits) : Digits[i] = c

DigitValue(c) == (CHOOSE i \in 1..Len(Digits) : Digits[i] = c) - 1

AllDigits(s) == \A i \in 1..Len(s) : IsDigit(s[i])

RECURSIVE DecimalValue(_)
DecimalValue(s) ==
    IF s = <<>> THEN 0
    ELSE DecimalValue(SubSeq(s, 1, Len(s) - 1)) * 10 + DigitValue(s[Len(s)])

RECURSIVE Pow10(_)
Pow10(n) == IF n = 0 THEN 1 ELSE 10 * Pow10(n - 1)

Number(num, den) == [kind |-> "num", num |-> num, den |-> den]
Infinity(neg) == [kind |-> "inf", neg |-> neg]
NaN == [kind |-> "nan"]

\* str::trim
trim(s) ==
    LET kept == {i \in 1..Len(s) : s[i] # " "}
    IN  IF kept = {} THEN <<>>
        ELSE SubSeq(s, CHOOSE i \in kept : \A j \in kept : i <= j,
                       CHOOSE i \in kept : \A j \in kept : j <= i)

\* str::strip_suffix
strip_suffix(s, suffix) ==
    IF Len(s) >= Len(suffix) /\ SubSeq(s, Len(s) - Len(suffix) + 1, Len(s)) = suffix
    THEN Some(SubSeq(s, 1, Len(s) - Len(suffix)))
    ELSE None

\* digits with at most one point and at least one digit: Some(<<num, den>>)
Mantissa(s) ==
    LET points == {i \in 1..Len(s) : s[i] = "."}
    IN  IF Cardinality(points) > 1 THEN None
        ELSE LET at == IF points = {} THEN Len(s) + 1 ELSE CHOOSE i \in points : TRUE
                 whole == SubSeq(s, 1, at - 1)
                 fraction == SubSeq(s, at + 1, Len(s))
             IN  IF AllDigits(whole) /\ AllDigits(fraction) /\ Len(whole) + Len(fraction) > 0
                 THEN Some(<<DecimalValue(whole \o fraction), Pow10(Len(fraction))>>)
                 ELSE None

\* a decimal exponent: optional sign and at least one digit
Exponent(s) ==
    LET signed == s # <<>> /\ s[1] \in {"+", "-"}
        digits == IF signed THEN Tail(s) ELSE s
    IN  IF digits # <<>> /\ AllDigits(digits)
        THEN Some(IF signed /\ s[1] = "-" THEN 0 - DecimalValue(digits)
                  ELSE DecimalValue(digits))
        ELSE None

\* an unsigned decimal literal, with or without exponent
Unsigned(s) ==
    LET marks == {i \in 1..Len(s) : s[i] \in {"e", "E"}}
    IN  IF marks = {} THEN Mantissa(s)
        ELSE LET at == CHOOSE i \in marks : \A j \in marks : i <= j
                 m == Mantissa(SubSeq(s, 1, at - 1))
                 e == Exponent(SubSeq(s, at + 1, Len(s)))
             IN  IF m.some /\ e.some
                 THEN IF e.val >= 0
                      THEN Some(<<m.val[1] * Pow10(e.val), m.val[2]>>)
                      ELSE Some(<<m.val[1], m.val[2] * Pow10(0 - e.val)>>)
                 ELSE None

\* str::parse::<f64>: optional sign, then inf, infinity or nan in any case, or
\* a decimal literal; no surrounding white space
parse_f64(s) ==
    LET signed == s # <<>> /\ s[1] \in {"+", "-"}
        neg == signed /\ s[1] = "-"
        body == IF signed THEN Tail(s) ELSE s
        lower == to_lowercase(body)
    IN  IF lower \in {<<"i", "n", "f">>, <<"i", "n", "f", "i", "n", "i", "t", "y">>}
        THEN Some(Infinity(neg))
        ELSE IF lower = <<"n", "a", "n">> THEN Some(NaN)
        ELSE LET u == Unsigned(body)
             IN  IF u.some
                 THEN Some(Number(IF neg THEN 0 - u.val[1] ELSE u.val[1], u.val[2]))
                 ELSE None

\* v / (num/den) in f64, rounding left aside
Divide(v, num, den) ==
    IF v.kind = "num" THEN Number(v.num * den, v.den * num) ELSE v

\* Option::map(|v| v / (num/den))
MapDivide(o, num, den) == IF o.some THEN Some(Divide(o.val, num, den)) ELSE None

\* faulty variant: the unit is stripped but the value is not converted
parse_to_inches_ignoring_unit(s) ==
    LET t == trim(s)
    IN  IF strip_suffix(t, <<"i", "n">>).some
        THEN parse_f64(trim(strip_suffix(t, <<"i", "n">>).val))
        ELSE IF strip_suffix(t, <<"m", "m">>).some
        THEN parse_f64(trim(strip_suffix(t, <<"m", "m">>).val))
        ELSE IF strip_suffix(t, <<"c", "m">>).some
        THEN parse_f64(trim(strip_suffix(t, <<"c", "m">>).val))
        ELSE parse_f64(t)

parse_to_inches(s) ==
    LET t == trim(s)
    IN  IF strip_suffix(t, <<"i", "n">>).some
        THEN parse_f64(trim(strip_suffix(t, <<"i", "n">>).val))
        ELSE IF strip_suffix(t, <<"m", "m">>).some
        THEN MapDivide(parse_f64(trim(strip_suffix(t, <<"m", "m">>).val)), 254, 10)
        ELSE IF strip_suffix(t, <<"c", "m">>).some
        THEN MapDivide(parse_f64(trim(strip_suffix(t, <<"c", "m">>).val)), 254, 100)
        ELSE parse_f64(t)

\* PrintToPdfParams::default() with the fields convert_html_to_pdf_cdp sets
PrintToPdfParams(options) ==
    [landscape |-> Some(options.landscape),
     print_background |-> Some(options.print_background),
     paper_width |-> IF options.page_width.some
                     THEN parse_to_inches(options.page_width.val) ELSE None,
     paper_height |-> IF options.page_height.some
                      THEN parse_to_inches(options.page_height.val) ELSE None]

\* dimension strings a client can send as pageWidth and pageHeight
Dimensions ==
    { <<"8", ".", "5", "i", "n">>, <<"2", "1", "0", "m", "m">>, <<"2", "1", "c", "m">>,
      <<"1", "1">>, <<" ", "8", ".", "5", " ", "i", "n", " ">>, <<"2", "1", "0", " ", "m", "m">>,
      <<"8", ".", "5", "I", "N">>, <<"a", "b", "c">>, <<>>, <<"i", "n">>, <<"m", "m">>,
      <<"1", ".", "2", ".", "3", "m", "m">>, <<"8", ",", "5", "i", "n">>,
      <<"1", "0", "p", "x">>, <<"-", "1", "c", "m">>, <<".", "5">>, <<"5", ".">>,
      <<"1", "e", "1", "m", "m">>, <<"n", "a", "n">>, <<"1", "1", " ", "8">> }

\* ConvertOptions as convert_handler fills them in
Options ==
    [page_width : {None} \cup {Some(d) : d \in Dimensions},
     page_height : {None} \cup {Some(d) : d \in Dimensions},
     landscape : BOOLEAN,
     print_background : BOOLEAN]

\* the building of the print parameters for one conversion
BuildPrintParams ==
    /\ call = NoCall
    /\ \E o \in Options : call' = [options |-> o, params |-> PrintToPdfParams(o)]
    /\ UNCHANGED <<startupVars, holder, waiters, pages, dirs, pc, req, resolved, result,
                   log>>

SpecPrintParams == Init /\ [][BuildPrintParams]_vars

(***************************************************************************)
(* The markdown pre-transform: markdown_to_html_simple and html_escape.    *)
(* The text and the HTML are tuples of characters.                         *)
(***************************************************************************)
MaxLines == 4

\* str::starts_with
starts_with(s, prefix) ==
    Len(s) >= Len(prefix) /\ SubSeq(s, 1, Len(prefix)) = prefix

\* str::lines: the pieces between line feeds, without a carriage return at
\* their end; a final line feed does not open another line
RECURSIVE lines(_)
lines(s) ==
    LET strip(l) == IF l # <<>> /\ l[Len(l)] = "\r" THEN SubSeq(l, 1, Len(l) - 1) ELSE l
        feeds == {i \in 1..Len(s) : s[i] = "\n"}
    IN  IF s = <<>> THEN <<>>
        ELSE IF feeds = {} THEN <<strip(s)>>
        ELSE LET at == CHOOSE i \in feeds : \A j \in feeds : i <= j
             IN  <<strip(SubSeq(s, 1, at - 1))>> \o lines(SubSeq(s, at + 1, Len(s)))

\* str::replace(char, &str)
RECURSIVE replace(_, _, _)
replace(s, from, to) ==
    IF s = <<>> THEN <<>>
    ELSE (IF Head(s) = from THEN to ELSE <<Head(s)>>) \o replace(Tail(s), from, to)

AMP == <<"&", "a", "m", "p", ";">>
LT == <<"&", "l", "t", ";">>
GT == <<"&", "g", "t", ";">>
QUOT == <<"&", "q", "u", "o", "t", ";">>

\* faulty variant: the ampersand is replaced last
html_escape_amp_last(s) ==
    replace(replace(replace(replace(s, "<", LT), ">", GT), "\"", QUOT), "&", AMP)

html_escape(s) ==
    replace(replace(replace(replace(s, "&", AMP), "<", LT), ">", GT), "\"", QUOT)

\* the character U+0060, which a TLA+ string cannot hold
BACKTICK == "U+0060"

FENCE == <<BACKTICK, BACKTICK, BACKTICK>>
PRE_OPEN == <<"<", "p", "r", "e", ">", "<", "c", "o", "d", "e", ">">>
PRE_CLOSE == <<"<", "/", "c", "o", "d", "e", ">", "<", "/", "p", "r", "e", ">", "\n">>
BR == <<"<", "b", "r", ">", "\n">>

\* format!("<{name}>{}</{name}>\n", text)
Element(name, text) ==
    <<"<">> \o name \o <<">">> \o text \o <<"<", "/">> \o name \o <<">", "\n">>

\* &line[n..]
From(line, n) == SubSeq(line, n + 1, Len(line))

\* what the loop pushes for a line outside a code block
Block(line) ==
    IF starts_with(line, <<"#", " ">>) THEN Element(<<"h", "1">>, From(line, 2))
    ELSE IF starts_with(line, <<"#", "#", " ">>) THEN Element(<<"h", "2">>, From(line, 3))
    ELSE IF starts_with(line, <<"#", "#", "#", " ">>)
    THEN Element(<<"h", "3">>, From(line, 4))
    ELSE IF starts_with(line, <<"-", " ">>) \/ starts_with(line, <<"*", " ">>)
    THEN Element(<<"l", "i">>, From(line, 2))
    ELSE IF line = <<>> THEN BR
    ELSE Element(<<"p">>, line)

\* the loop over md.lines(): what each iteration pushes onto html
RECURSIVE Pushed(_, _)
Pushed(ls, in_code_block) ==
    IF ls = <<>> THEN <<>>
    ELSE LET line == Head(ls)
         IN  IF starts_with(line, FENCE)
             THEN <<IF in_code_block THEN PRE_CLOSE ELSE PRE_OPEN>>
                      \o Pushed(Tail(ls), ~in_code_block)
             ELSE IF in_code_block
             THEN <<html_escape(line) \o <<"\n">>>> \o Pushed(Tail(ls), TRUE)
             ELSE <<Block(line)>> \o Pushed(Tail(ls), FALSE)

RECURSIVE Concat(_)
Concat(ss) == IF ss = <<>> THEN <<>> ELSE Head(ss) \o Concat(Tail(ss))

markdown_to_html_simple(md) == Concat(Pushed(lines(md), FALSE))

\* lines of a markdown file
MarkdownLines ==
    { <<BACKTICK, BACKTICK, BACKTICK>>, <<BACKTICK, BACKTICK, BACKTICK, "r", "s">>,
      <<"#", " ", "T">>, <<"#", "#", " ", "<", "b", ">">>, <<"#", "#", "#", " ", "&">>,
      <<"-", " ", "\"", "q", "\"">>, <<"*", " ", "x">>, <<>>,
      <<"a", "&", "l", "t", ";", "<">>, <<"#", "x">> }

\* the files: up to MaxLines lines, each ended by a line feed
RECURSIVE Files(_)
Files(n) ==
    IF n = 0 THEN {<<>>}
    ELSE Files(n - 1) \cup {Append(f, l) : f \in {g \in Files(n - 1) : Len(g) = n - 1},
                                           l \in MarkdownLines}

RECURSIVE Content(_)
Content(ls) == IF ls = <<>> THEN <<>> ELSE Head(ls) \o <<"\n">> \o Content(Tail(ls))

\* convert_markdown_to_html on one file: the lines the file has, what each
\* iteration of the loop pushed for them, and the HTML that comes out
MarkdownCall ==
    /\ call = NoCall
    /\ \E ls \in Files(MaxLines) :
         call' = [lines |-> ls,
                  pushed |-> Pushed(lines(Content(ls)), FALSE),
                  html |-> markdown_to_html_simple(Content(ls))]
    /\ UNCHANGED <<startupVars, holder, waiters, pages, dirs, pc, req, resolved, result,
                   log>>

SpecMarkdown == Init /\ [][MarkdownCall]_vars

(***************************************************************************)
(* Properties                                                              *)
(***************************************************************************)
Tasks == DOMAIN pc

\* positions between the return of lock().await and the drop of the guard
Guarded == {"c_locked", "c_page", "c_nav"}

\* the task called convert() on the Chromium engine
OnChromium(p) == resolved[p].kind = "Ok" /\ resolved[p].engine = "Chromium"

RegIndex(e) == CHOOSE i \in 1..Len(Registry) : Registry[i] = e

\* C1: at every moment at most one conversion is inside the guarded portion of
\* the Chromium engine, and the one that is inside owns the guard.
C1_OneConversionInGuard ==
    \A p, q \in Tasks :
        /\ (pc[p] \in Guarded /\ pc[q] \in Guarded) => p = q
        /\ pc[p] \in Guarded => holder = p

C1_Witness ==
    \E p, q \in Tasks : pc[p] = "c_nav" /\ pc[q] = "c_wait" /\ q \in {waiters[i] : i \in 1..Len(waiters)}

\* C2: the guard is granted in request order (a task gets the guard at once
\* only when nobody waits, otherwise the oldest waiter gets it; requests join
\* the queue at the tail), and under fair scheduling of the conversions every
\* task that requested the guard eventually enters the guarded portion.
C2_GrantInRequestOrder ==
    /\ \A p \in Tasks :
         (holder # p /\ holder' = p) =>
             IF waiters = <<>> THEN pc[p] = "c_lock" ELSE p = Head(waiters)
    /\ \/ waiters' = waiters
       \/ \E q \in Tasks : pc[q] = "c_lock" /\ holder # 0 /\ waiters' = Append(waiters, q)
       \/ waiters # <<>> /\ waiters' = Tail(waiters) /\ holder' = Head(waiters)

C2_FifoNoStarvation ==
    /\ [][C2_GrantInRequestOrder]_vars
    /\ \A p \in Callers : (pc[p] \in {"c_lock", "c_wait"}) ~> (pc[p] = "c_locked")

C2_Witness ==
    /\ holder # 0
    /\ pc[holder] = "c_wait"
    /\ Len(waiters) >= 1

\* C3: a direct resolution fails with UnsupportedFormat exactly when no
\* registered engine supports the extension, whatever the availability cache.
C3_UnsupportedIffNoCandidate ==
    call # NoCall =>
        (call.res.kind = "UnsupportedFormat"
            <=> ~ \E i \in 1..Len(engines) : supports_extension(engines[i], call.ext))

C3_Witness ==
    /\ call.res.kind = "UnsupportedFormat"
    /\ \E e \in DOMAIN availability : availability[e]

\* C4: when some registered engine supports the extension but none of those is
\* cached as available, resolution fails with EngineNotAvailable and the
\* message lists exactly the supporting engine types, in registration order.
C4_NotAvailableNamesAllCandidates ==
    (/\ call # NoCall
     /\ \E i \in 1..Len(engines) : supports_extension(engines[i], call.ext)
     /\ \A i \in 1..Len(engines) :
            supports_extension(engines[i], call.ext) => ~CachedAvailable(engines[i]))
    => /\ call.res.kind = "EngineNotAvailable"
       /\ \A e \in EngineTypes :
            supports_extension(e, call.ext) <=> Contains(call.res.supported_by, e)
       /\ \A i, j \in 1..Len(call.res.supported_by) :
            i < j => RegIndex(call.res.supported_by[i]) < RegIndex(call.res.supported_by[j])

C4_Witness ==
    /\ call.res.kind = "EngineNotAvailable"
    /\ call.res.supported_by = <<"LibreOffice">>
    /\ CachedAvailable("Chromium")

\* C5: a successful resolution returns an engine that supports the extension
\* and is cached as available, and no engine registered before it does both.
C5_FirstAvailableCandidate ==
    (call # NoCall /\ call.res.kind = "Ok") =>
        /\ supports_extension(call.res.engine, call.ext)
        /\ CachedAvailable(call.res.engine)
        /\ \A i \in 1..Len(engines) :
             (supports_extension(engines[i], call.ext) /\ CachedAvailable(engines[i]))
                 => RegIndex(call.res.engine) <= i

C5_Witness ==
    /\ call.res.kind = "Ok"
    /\ call.res.engine = "Image"
    /\ ~CachedAvailable("Chromium")
    /\ ~CachedAvailable("LibreOffice")

\* C6: the resolution a task obtained earlier is what a resolution of the same
\* file returns now, whatever resolutions and conversions happened in between.
C6_ResolutionDeterministic ==
    \A p \in Tasks :
        resolved[p] # NoResult =>
            LET again == find_engine_for_file(req[p])
            IN  /\ again.kind = resolved[p].kind
                /\ resolved[p].kind = "Ok" => again.engine = resolved[p].engine

C6_Witness ==
    \E p, q \in Tasks :
        /\ p # q
        /\ pc[p] = "s_run"
        /\ pc[q] = "done"
        /\ req[q] = req[p]
        /\ resolved[q].kind = "Ok"
        /\ result[q].kind = "EngineNotAvailable"

\* C7: when construction is over is_available() has been called exactly once
\* on every registered engine, and from then on no step (resolution,
\* conversion, info query) calls it again or changes the registry or the
\* availability map.
C7_ProbedOnce ==
    mainPc = "serving" =>
        /\ engines = Registry
        /\ DOMAIN availability = EngineTypes
        /\ \A e \in EngineTypes : probeCount[e] = 1

C7_CacheFrozen ==
    /\ []C7_ProbedOnce
    /\ [][mainPc = "serving" => UNCHANGED <<engines, availability, probeCount>>]_vars

C7_Witness ==
    /\ mainPc = "serving"
    /\ ~CachedAvailable("LibreOffice")
    /\ \E p \in Tasks : pc[p] = "done" /\ result[p].kind = "EngineNotAvailable"
                          /\ resolved[p].kind = "EngineNotAvailable"
    /\ \E p \in Tasks : pc[p] = "done" /\ result[p].kind = "Info"

\* C8 as stated: once init() has failed every convert() on the Chromium engine
\* fails with EngineNotAvailable.
C8_Original ==
    \A p \in Tasks :
        (mainPc = "serving" /\ browser = "None" /\ OnChromium(p) /\ pc[p] = "done")
            => result[p].kind = "EngineNotAvailable"

\* C8 amended: once init() has failed the engine stays Uninitialized, no
\* conversion opens a page or returns a result, a finished conversion does not
\* hold the guard, and it failed with EngineNotAvailable or, for a markdown
\* input whose pre-transform failed before the guard was requested, with an
\* I/O error.
C8_UninitializedState ==
    (mainPc # "new" /\ browser = "None") =>
        \A p \in Tasks :
            /\ pc[p] \notin {"c_page", "c_nav"}
            /\ pc[p] = "done" => holder # p
            /\ (OnChromium(p) /\ pc[p] = "done") =>
                 \/ /\ result[p].kind = "EngineNotAvailable"
                    /\ result[p].msg = "Chromium browser not initialized"
                 \/ /\ result[p].kind = "IoError"
                    /\ result[p].msg = "markdown"
                    /\ IsMarkdown(req[p])

C8_UninitializedConvertFails ==
    /\ []C8_UninitializedState
    /\ [][(mainPc # "new" /\ browser = "None") => browser' = "None"]_vars

C8_Witness ==
    /\ browser = "None"
    /\ holder = 0
    /\ \E p \in Tasks :
         /\ OnChromium(p)
         /\ pc[p] = "done"
         /\ result[p].kind = "EngineNotAvailable"
         /\ result[p].msg = "Chromium browser not initialized"

\* C9 as stated: an engine whose init() failed is never recorded as available.
C9_UninitializedNeverAvailable ==
    (browser = "None" /\ "Chromium" \in DOMAIN availability)
        => ~availability["Chromium"]

\* C10: once the session handle is stored, no step clears or replaces it.
C10_StaysInitialized ==
    [][browser # "None" => browser' = browser]_vars

C10_Witness ==
    /\ browser = "Session"
    /\ \E p \in Tasks : OnChromium(p) /\ pc[p] = "done" /\ result[p].kind = "ConversionFailed"
    /\ \E p \in Tasks : OnChromium(p) /\ pc[p] = "done" /\ result[p].kind = "Ok"

\* the task called convert() on one of the two subprocess engines
OnStateless(p) ==
    resolved[p].kind = "Ok" /\ resolved[p].engine \in {"LibreOffice", "Image"}

\* C11: on a stateless engine the tool decides the outcome of convert(): a
\* failed spawn gives EngineNotAvailable, a non-zero exit gives
\* ConversionFailed carrying the tool's standard error, and a result is
\* returned only after exit status zero and a successful read of the output.
C11_ToolDecidesOutcome ==
    \A p \in Tasks :
        (OnStateless(p) /\ pc[p] = "done") =>
            /\ log[p].tool = "SpawnFailed" => result[p].kind = "EngineNotAvailable"
            /\ (log[p].tool = "Exited" /\ log[p].status # 0) =>
                  /\ result[p].kind = "ConversionFailed"
                  /\ result[p].detail = log[p].stderr
            /\ result[p].kind = "Ok" =>
                  /\ log[p].tool = "Exited"
                  /\ log[p].status = 0
                  /\ log[p].read_back

C11_Witness ==
    \E p, q \in Tasks :
        /\ pc[p] = "done" /\ pc[q] = "done"
        /\ OnStateless(p) /\ resolved[p].engine = "LibreOffice"
        /\ result[p].kind = "ConversionFailed"
        /\ log[p].stderr = "source file could not be loaded"
        /\ OnStateless(q) /\ resolved[q].engine = "Image"
        /\ result[q].kind = "Ok"

\* C12: a request makes at most one convert() call, and only on the engine it
\* was resolved to; a stateless convert() starts its tool at most once; a
\* request whose resolution failed calls no convert(); a request in flight
\* has reported nothing, and once it reported its outcome it neither
\* resolves, converts, spawns nor reports again.
C12_AtMostOnce ==
    \A p \in Tasks :
        /\ log[p].convert_calls <= 1
        /\ log[p].spawns <= log[p].convert_calls
        /\ log[p].convert_calls = 1 => resolved[p].kind = "Ok"
        /\ (log[p].spawns = 1 \/ log[p].tool # "NotRun") => OnStateless(p)
        /\ pc[p] # "done" => result[p] = NoResult
        /\ pc[p] = "done" => result[p] # NoResult

C12_NothingAfterReport ==
    \A p \in Tasks :
        /\ (resolved[p] # NoResult /\ pc'[p] # "idle") => resolved'[p] = resolved[p]
        /\ pc[p] = "done" =>
              \/ pc'[p] = "idle"
              \/ /\ pc'[p] = "done"
                 /\ result'[p] = result[p]
                 /\ log'[p] = log[p]

C12_NoRetryNoFallback ==
    /\ []C12_AtMostOnce
    /\ [][C12_NothingAfterReport]_vars

C12_Witness ==
    \E p, q \in Tasks :
        /\ pc[p] = "done" /\ pc[q] = "done"
        /\ OnStateless(p)
        /\ log[p].tool = "SpawnFailed"
        /\ log[p].spawns = 1
        /\ result[p].kind = "EngineNotAvailable"
        /\ resolved[q].kind = "EngineNotAvailable"
        /\ result[q] = resolved[q]
        /\ log[q] = NoLog

\* C13: no lock serializes the stateless engines: a conversion on a stateless
\* engine never holds or waits for the session guard and opens no page, and
\* whatever the other conversions are doing (running their tool, holding the
\* guard) a stateless convert() that was called can start its tool.
C13_StatelessNotSerialized ==
    \A p \in Tasks :
        OnStateless(p) =>
            /\ holder # p
            /\ \A i \in 1..Len(waiters) : waiters[i] # p
            /\ p \notin pages
            /\ pc[p] = "convert" => ENABLED (StatelessSpawn(p) /\ pc'[p] = "s_run")

C13_Witness ==
    \E p, q, r \in Tasks :
        /\ pc[p] = "s_run" /\ resolved[p].engine = "LibreOffice"
        /\ pc[q] = "s_run" /\ resolved[q].engine = "Image"
        /\ pc[r] = "c_nav" /\ holder = r

\* C14: every successful conversion, on each of the three engines, returns
\* content type application/pdf and a file name that is the input's file name
\* with its extension replaced by "pdf": the client's file name is
\* [directories "/"] stem "." extension, and the result is named stem ".pdf",
\* for a markdown input too.
C14_PdfNamedAfterInput ==
    \A p \in Tasks :
        (pc[p] = "done" /\ result[p].kind = "Ok") =>
            LET f == result[p].filename
                n == Len(f) - 4
                stem == SubSeq(f, 1, n)
                tail == stem \o <<".">> \o req[p].ext
                orig == req[p].filename
                k == Len(orig) - Len(tail)
            IN  /\ result[p].content_type = "application/pdf"
                /\ n >= 1
                /\ SubSeq(f, n + 1, n + 4) = <<".", "p", "d", "f">>
                /\ \A i \in 1..n : stem[i] # "/"
                /\ k >= 0
                /\ SubSeq(orig, k + 1, Len(orig)) = tail
                /\ k > 0 => orig[k] = "/"

C14_Witness ==
    \E p, q \in Tasks :
        /\ pc[p] = "done" /\ pc[q] = "done"
        /\ OnChromium(p) /\ IsMarkdown(req[p])
        /\ result[p].kind = "Ok"
        /\ result[p].filename = <<"n", ".", "b", ".", "p", "d", "f">>
        /\ OnStateless(q)
        /\ result[q].kind = "Ok"
        /\ result[q].filename = <<"p", ".", "p", "d", "f">>

\* the request of task p has its input stored: the handler's TempDir is alive
InputSaved(p) == [owner |-> p, kind |-> "input"] \in dirs

\* C15 as stated: every stored input lies inside the temporary directory that
\* was created for its request, live temporary directories are pairwise
\* different, and no two requests in flight store their input in the same
\* place.
C15_InputInsideOwnTempDir ==
    /\ \A d, e \in dirs :
         d # e => TempDirPath(d.owner, d.kind) # TempDirPath(e.owner, e.kind)
    /\ \A p \in Tasks :
         InputSaved(p) =>
             /\ Inside(input_path(p), TempDirPath(p, "input"))
             /\ \A q \in Tasks \ {p} : InputSaved(q) => input_path(q) # input_path(p)

\* C16: for the extension of every direct call, each engine's
\* supports_extension, the router's is_extension_supported and the outcome of
\* find_engine_for_extension (the engine, or the kind of error) are those of
\* the lower-cased extension.
C16_CaseInsensitive ==
    call # NoCall =>
        LET lower == to_lowercase(call.ext)
            again == find_engine_for_extension(lower)
        IN  /\ \A e \in EngineTypes :
                 supports_extension(e, call.ext) = supports_extension(e, lower)
            /\ is_extension_supported(call.ext) = is_extension_supported(lower)
            /\ call.res.kind = again.kind
            /\ call.res.kind = "Ok" => call.res.engine = again.engine

C16_Witness ==
    /\ call.ext = <<"J", "P", "G">>
    /\ call.res.kind = "Ok"
    /\ call.res.engine = "Image"
    /\ is_extension_supported(call.ext)
    /\ supports_extension("Image", call.ext)

\* C17: supported_extensions() is strictly increasing (sorted, no duplicate)
\* and holds exactly the extensions of all registered engines, available or
\* not; is_extension_supported(e) is true exactly when the lower-cased e is in
\* that list, and exactly when find_engine_for_extension(e) does not fail with
\* UnsupportedFormat.
C17_SortedUnionOfAllEngines ==
    LET list == router_supported_extensions
    IN  /\ \A i, j \in 1..Len(list) : i < j => StrLess(list[i], list[j])
        /\ {list[i] : i \in 1..Len(list)} =
              UNION { {supported_extensions(engines[k])[i] :
                          i \in 1..Len(supported_extensions(engines[k]))} :
                      k \in 1..Len(engines) }
        /\ call # NoCall =>
              /\ is_extension_supported(call.ext) <=> Contains(list, to_lowercase(call.ext))
              /\ is_extension_supported(call.ext) <=> call.res.kind # "UnsupportedFormat"

C17_Witness ==
    /\ mainPc = "serving"
    /\ ~CachedAvailable("LibreOffice")
    /\ call.ext = <<"D", "o", "c", "X">>
    /\ call.res.kind = "EngineNotAvailable"
    /\ is_extension_supported(call.ext)
    /\ Len(router_supported_extensions) = 23
    /\ router_supported_extensions[3] = <<"d", "o", "c", "x">>

\* C18: the extension table of every registered engine is non-empty, holds
\* only lower-case strings and shares no extension with the table of another
\* registered engine; an extension that is supported has exactly one
\* candidate engine.
C18_TablesDisjointLowerCase ==
    /\ \A k \in 1..Len(engines) :
         LET table == supported_extensions(engines[k])
         IN  /\ Len(table) > 0
             /\ \A i \in 1..Len(table) : to_lowercase(table[i]) = table[i]
             /\ \A m \in 1..Len(engines) :
                  m # k => \A i \in 1..Len(table) :
                               ~Contains(supported_extensions(engines[m]), table[i])
    /\ (call # NoCall /\ call.res.kind # "UnsupportedFormat") =>
         Len(Candidates(call.ext)) = 1

C18_Witness ==
    /\ mainPc = "serving"
    /\ call.ext = <<"w", "e", "b", "p">>
    /\ call.res.kind = "Ok"
    /\ Candidates(call.ext) = <<"Image">>
    /\ CachedAvailable("Chromium")
    /\ CachedAvailable("LibreOffice")

\* what find_engine_for_file has to return for the stored input of task p
ExpectedResolution(p) ==
    LET ext == InputExtension[p][req[p].filename]
    IN  IF ext.some THEN find_engine_for_extension(ext.val)
        ELSE AppError("InvalidRequest", "File has no extension", <<>>, <<>>)

\* find_engine_for_file returns InvalidRequest for a path without extension,
\* whatever the registry and the cache hold, and otherwise what
\* find_engine_for_extension returns for the extension
C19_ResolutionByExtension ==
    \A p \in Tasks : resolved[p] # NoResult => resolved[p] = ExpectedResolution(p)

C19_Rejected ==
    /\ C19_ResolutionByExtension
    /\ \A p \in Tasks :
         pc[p] = "done" =>
             /\ req[p].part = "no_filename" =>
                   result[p].kind = "InvalidRequest" /\ result[p].msg = "No filename provided"
             /\ (req[p].part = "file" /\ ~InputExtension[p][req[p].filename].some) =>
                   /\ log[p] = NoLog
                   /\ \/ /\ result[p].kind = "InvalidRequest"
                         /\ result[p].msg = "File has no extension"
                         /\ resolved[p] = result[p]
                      \/ /\ result[p].kind = "IoError"
                         /\ result[p].msg = "input"
                         /\ resolved[p] = NoResult

C20_FixedStatusMapping ==
    call # NoCall =>
        LET kind == call.err.kind
            status == call.response.status
            message == call.response.body.error
        IN  /\ kind \in {"UnsupportedFormat", "InvalidRequest", "NoFileProvided"}
                  => status = 400
            /\ kind = "EngineNotAvailable" => status = 503
            /\ kind \in {"ConversionFailed", "IoError", "Internal"} => status = 500
            /\ status \in {400, 500, 503}
            /\ message[1] = DisplayPrefix(kind)
            /\ kind # "NoFileProvided" =>
                  /\ message[2].msg = call.err.msg
                  /\ "detail" \in DOMAIN call.err => message[2].detail = call.err.detail

C20_Witness ==
    /\ call # NoCall
    /\ call.err.kind = "EngineNotAvailable"
    /\ call.err.msg = "LibreOffice not found"
    /\ call.response.status = 503
    /\ call.response.body.error[1] = "Engine not available: "

HtmlDir(p) == [owner |-> p, kind |-> "html"]

\* C21 as stated: the markdown pre-transform writes its temporary artifact while
\* the conversion holds the session guard and has its page open.
C21_Original ==
    [][\A p \in Tasks :
          (HtmlDir(p) \notin dirs /\ HtmlDir(p) \in dirs') => (holder = p /\ p \in pages)]_vars

\* the order in which a conversion on the Chromium engine moves through
\* convert() and convert_html_to_pdf_cdp()
ProtocolSteps ==
    { <<"idle", "convert">>,
      <<"convert", "c_lock">>, <<"convert", "done">>,
      <<"c_lock", "c_locked">>, <<"c_lock", "c_wait">>, <<"c_wait", "c_locked">>,
      <<"c_locked", "c_page">>, <<"c_locked", "done">>,
      <<"c_page", "c_nav">>, <<"c_page", "done">>,
      <<"c_nav", "done">>,
      <<"done", "idle">> }

C21_InOrder(p) ==
    /\ pc'[p] # pc[p] => <<pc[p], pc'[p]>> \in ProtocolSteps
    \* the pre-transform: markdown only, first step, guard neither held nor requested
    /\ (HtmlDir(p) \notin dirs /\ HtmlDir(p) \in dirs') =>
          /\ IsMarkdown(req[p])
          /\ pc[p] = "convert" /\ pc'[p] = "c_lock"
          /\ holder # p /\ ~Contains(waiters, p) /\ p \notin pages
    \* the guard is requested once the pre-transform is through
    /\ (pc[p] = "c_lock" /\ pc'[p] # "c_lock") => (IsMarkdown(req[p]) <=> HtmlDir(p) \in dirs)
    \* the page is opened under the guard
    /\ (p \notin pages /\ p \in pages') => (holder = p /\ pc[p] = "c_locked")
    \* navigation is run on the open page, under the guard
    /\ (pc[p] = "c_page" /\ pc'[p] # "c_page") => (holder = p /\ p \in pages)
    \* print is invoked only after navigation succeeded
    /\ (pc'[p] = "done" /\ pc[p] # "done"
          /\ (result'[p].kind = "Ok" \/ result'[p].msg = "PDF generation failed"))
         => (pc[p] = "c_nav" /\ holder = p /\ p \in pages)

\* C21 amended: a conversion on the Chromium engine first runs the markdown
\* pre-transform (md and markdown inputs only) without the guard, then acquires
\* the guard, opens its page, navigates and prints; print is invoked only after
\* navigation succeeded.
C21_ProtocolOrder ==
    [][\A p \in Tasks : C21_InOrder(p)]_vars

C21_Witness ==
    \E p, q \in Tasks :
        /\ p # q
        /\ IsMarkdown(req[p]) /\ pc[p] = "done" /\ result[p].kind = "Ok"
        /\ IsMarkdown(req[q]) /\ pc[q] = "c_nav" /\ holder = q /\ HtmlDir(q) \in dirs

\* C22: once convert() on the Chromium engine has returned, with a result or
\* with any error, that conversion neither holds the session guard nor waits
\* for it; the guard is only ever held by a conversion that is still inside
\* convert_html_to_pdf_cdp, and it is not left free while a conversion waits.
C22_GuardReleasedOnReturn ==
    /\ \A p \in Tasks :
          pc[p] \in {"done", "idle", "convert", "c_lock"} =>
              (holder # p /\ ~Contains(waiters, p))
    /\ holder # 0 => pc[holder] \in Guarded \cup {"c_wait"}
    /\ holder = 0 => waiters = <<>>

C22_Witness ==
    \E p, q, r \in Tasks :
        /\ pc[p] = "done" /\ result[p].kind = "ConversionFailed"
        /\ result[p].msg = "Failed to navigate"
        /\ pc[q] = "done" /\ result[q].kind = "IoError" /\ result[q].msg = "canonicalize"
        /\ pc[r] = "c_nav" /\ holder = r

\* no request is being handled: no task has left its idle slot, nothing was
\* resolved, and nobody holds or awaits the session guard
NoRequestInFlight ==
    /\ \A p \in Tasks : pc[p] = "idle" /\ req[p] = NoReq /\ resolved[p] = NoResult
    /\ holder = 0 /\ waiters = <<>> /\ pages = {} /\ dirs = {}

C23_StartupFirst ==
    /\ mainPc # "serving" => NoRequestInFlight
    /\ \A p \in Tasks :
          pc[p] # "idle" =>
              /\ engines = Registry
              /\ DOMAIN availability = EngineTypes
              /\ \A e \in EngineTypes : probeCount[e] = 1

\* C23: init() and every availability probe have completed before any request
\* is handled: while SmartRouter::new() runs no handler, resolution or convert()
\* is in progress, each of its steps is taken with no request in flight, and
\* nothing it wrote changes afterwards.
C23_InitNeverRacesRequests ==
    /\ []C23_StartupFirst
    /\ [][startupVars' # startupVars => (mainPc # "serving" /\ NoRequestInFlight)]_vars

C23_Witness ==
    /\ mainPc = "serving"
    /\ \E p, q \in Tasks :
         /\ pc[p] = "c_nav" /\ holder = p
         /\ pc[q] = "h_saved"

\* C24 as stated: the page a conversion on the Chromium engine opened is closed
\* when the conversion ends, so the session never holds an open tab that belongs
\* to a conversion that has already returned.
C24_NoContextOfFinishedConversion ==
    \A p \in Tasks : pc[p] = "done" => ~log[p].tab_open

\* the temporary directories a request needs at its current step
DirsInUse(p) ==
    (IF pc[p] \in {"h_saved", "convert", "c_lock", "c_wait", "c_locked", "c_page", "c_nav",
                   "s_run"}
     THEN {[owner |-> p, kind |-> "input"]} ELSE {})
    \cup (IF pc[p] \in {"c_lock", "c_wait", "c_locked", "c_page", "c_nav"}
             /\ IsMarkdown(req[p])
          THEN {HtmlDir(p)} ELSE {})
    \cup (IF pc[p] = "s_run" THEN {[owner |-> p, kind |-> "output"]} ELSE {})

UnitRules(d) ==
    CASE d = <<"8", ".", "5", "i", "n">> -> Some(Number(85, 10))
      [] d = <<" ", "8", ".", "5", " ", "i", "n", " ">> -> Some(Number(85, 10))
      [] d = <<"2", "1", "0", "m", "m">> -> Some(Number(2100, 254))
      [] d = <<"2", "1", "0", " ", "m", "m">> -> Some(Number(2100, 254))
      [] d = <<"2", "1", "c", "m">> -> Some(Number(2100, 254))
      [] d = <<"1", "e", "1", "m", "m">> -> Some(Number(100, 254))
      [] d = <<"-", "1", "c", "m">> -> Some(Number(0 - 100, 254))
      [] d = <<"1", "1">> -> Some(Number(11, 1))
      [] d = <<".", "5">> -> Some(Number(1, 2))
      [] d = <<"5", ".">> -> Some(Number(5, 1))
      [] d = <<"n", "a", "n">> -> Some(NaN)
      [] OTHER -> None

SameInches(a, b) ==
    /\ a.some = b.some
    /\ a.some =>
          /\ a.val.kind = b.val.kind
          /\ a.val.kind = "num" => a.val.num * b.val.den = b.val.num * a.val.den
          /\ a.val.kind = "inf" => a.val.neg = b.val.neg

\* C26: the print parameters are built for every combination of options:
\* landscape and print-background are passed through as they are, and each of
\* paper width and paper height, independently of the other, is set to what the
\* unit rules give for its string and left unset when the string is absent or
\* does not parse.
C26_UnparseableDimensionIgnored ==
    "params" \in DOMAIN call =>
        LET o == call.options
            ps == call.params
        IN  /\ ps.landscape = Some(o.landscape)
            /\ ps.print_background = Some(o.print_background)
            /\ SameInches(ps.paper_width,
                          IF o.page_width.some THEN UnitRules(o.page_width.val) ELSE None)
            /\ SameInches(ps.paper_height,
                          IF o.page_height.some THEN UnitRules(o.page_height.val) ELSE None)

C26_Witness ==
    /\ "params" \in DOMAIN call
    /\ call.options.page_width = Some(<<"a", "b", "c">>)
    /\ call.options.page_height = Some(<<"2", "1", "0", "m", "m">>)
    /\ call.options.landscape /\ ~call.options.print_background
    /\ call.params.paper_width = None
    /\ call.params.paper_height = Some(Number(2100, 254))
    /\ call.params.landscape = Some(TRUE)
    /\ call.params.print_background = Some(FALSE)

IsFenceLine(l) == Len(l) >= 3 /\ SubSeq(l, 1, 3) = <<BACKTICK, BACKTICK, BACKTICK>>

\* line i of ls lies inside a code block: an odd number of fence lines precede it
InFence(ls, i) == Cardinality({j \in 1..(i - 1) : IsFenceLine(ls[j])}) % 2 = 1

\* the text an escaped string stands for
RECURSIVE Unescape(_)
Unescape(s) ==
    IF s = <<>> THEN <<>>
    ELSE IF starts_with(s, AMP) THEN <<"&">> \o Unescape(From(s, Len(AMP)))
    ELSE IF starts_with(s, LT) THEN <<"<">> \o Unescape(From(s, Len(LT)))
    ELSE IF starts_with(s, GT) THEN <<">">> \o Unescape(From(s, Len(GT)))
    ELSE IF starts_with(s, QUOT) THEN <<"\"">> \o Unescape(From(s, Len(QUOT)))
    ELSE <<Head(s)>> \o Unescape(Tail(s))

\* no raw <, > or ", and every & opens one of the four entities
Escaped(s) ==
    \A i \in 1..Len(s) :
        /\ s[i] \notin {"<", ">", "\""}
        /\ s[i] = "&" => \E e \in {AMP, LT, GT, QUOT} : starts_with(From(s, i - 1), e)

\* C27: a line that starts with three backticks pushes the opening or closing
\* tag of the code block and nothing of its own text; a line between an opening
\* fence and the next fence line is pushed escaped (it reads back as the line,
\* has no raw <, > or ", and & only as an entity) and not as a block; a line
\* outside a fence is pushed as h1, h2, h3, li, br or p by its prefix, with its
\* text as it is.
C27_FencesEscapeBlocksLiteral ==
    "pushed" \in DOMAIN call =>
        LET ls == call.lines
            out == call.pushed
        IN  /\ Len(out) = Len(ls)
            /\ call.html = Concat(out)
            /\ \A i \in 1..Len(ls) :
                 LET line == ls[i]
                 IN  IF IsFenceLine(line)
                     THEN out[i] = IF InFence(ls, i) THEN PRE_CLOSE ELSE PRE_OPEN
                     ELSE IF InFence(ls, i)
                     THEN /\ out[i] # <<>> /\ out[i][Len(out[i])] = "\n"
                          /\ LET text == SubSeq(out[i], 1, Len(out[i]) - 1)
                             IN  Escaped(text) /\ Unescape(text) = line
                     ELSE out[i] =
                            CASE starts_with(line, <<"#", " ">>) ->
                                    Element(<<"h", "1">>, From(line, 2))
                              [] starts_with(line, <<"#", "#", " ">>) ->
                                    Element(<<"h", "2">>, From(line, 3))
                              [] starts_with(line, <<"#", "#", "#", " ">>) ->
                                    Element(<<"h", "3">>, From(line, 4))
                              [] starts_with(line, <<"-", " ">>) ->
                                    Element(<<"l", "i">>, From(line, 2))
                              [] starts_with(line, <<"*", " ">>) ->
                                    Element(<<"l", "i">>, From(line, 2))
                              [] line = <<>> -> BR
                              [] OTHER -> Element(<<"p">>, line)

C27_Witness ==
    /\ "pushed" \in DOMAIN call
    /\ call.lines = << <<"#", "#", " ", "<", "b", ">">>, <<BACKTICK, BACKTICK, BACKTICK, "r", "s">>,
                       <<"a", "&", "l", "t", ";", "<">>, <<BACKTICK, BACKTICK, BACKTICK>> >>
    /\ call.pushed[1] = <<"<", "h", "2", ">", "<", "b", ">", "<", "/", "h", "2", ">", "\n">>
    /\ call.pushed[2] = PRE_OPEN
    /\ call.pushed[3] = <<"a", "&", "a", "m", "p", ";", "l", "t", ";", "&", "l", "t", ";", "\n">>
    /\ call.pushed[4] = PRE_CLOSE

====
